---- MODULE Spec2Model ----
(***************************************************************************)
(* Model of llm_backend/main.py: the chat-like routes (/chat, /reason,     *)
(* /search, /chat-rag), their streamed responses, and the /upload flow.    *)
(*                                                                         *)
(* External collaborators (backend constructors, the token generators,     *)
(* log_structured, file I/O, RAGService.process_file) are the environment: *)
(* their outcomes are inputs drawn from small sets.  StreamingResponse is  *)
(* modelled by what the ASGI framework does with the generator it is       *)
(* handed: it pulls one token at a time, sends each in order, and lets an  *)
(* exception of the generator end the connection without the terminating   *)
(* chunk.                                                                  *)
(***************************************************************************)
EXTENDS Integers, Sequences, FiniteSets, TLC

\* ---------------------------------------------------------------- bounds
MaxMsgs == 2
MaxTokens == 2
NumUploads == 2
MaxTick == 3

\* clock ticks per second of wall-clock time (a tick is half a second)
TicksPerSecond == 2

VARIABLES
    \* ---- one chat-like request
    cpc,          \* "idle" | "rejected" | "streaming" | "ended"
    route,        \* "/chat" | "/reason" | "/search" | "/chat-rag"
    messages,     \* request.messages
    cenv,         \* outcomes of the collaborators for this request
    constructed,  \* backends constructed while handling the request
    logged,       \* events accepted by log_structured
    response,     \* what the handler handed back to the router
    backend,      \* the generator returned by generate_stream
    pulled,       \* number of tokens taken from the generator
    delivered,    \* tokens sent to the client, in order
    streamEnd,    \* "none" | "complete" | "aborted"
    \* ---- concurrent /upload requests
    clock,        \* wall clock, in ticks
    upc,          \* per upload: "new" | "reading" | "indexing" | "done"
    upreq,        \* per upload: the multipart file (name, type, bytes)
    uptick,       \* per upload: clock reading when the handler started
    upfile,       \* per upload: filename and file_path derived at the start
    upenv,        \* per upload: outcomes of the collaborators
    upinfo,       \* per upload: file_info handed to process_file
    upresp,       \* per upload: what the handler handed back to the router
    storage,      \* UPLOAD_DIR: path -> bytes
    ragCalls      \* uploads for which process_file has been invoked

chatVars == <<cpc, route, messages, cenv, constructed, logged, response,
              backend, pulled, delivered, streamEnd>>
uploadVars == <<clock, upc, upreq, uptick, upfile, upenv, upinfo, upresp,
                storage, ragCalls>>
vars == <<cpc, route, messages, cenv, constructed, logged, response,
          backend, pulled, delivered, streamEnd,
          clock, upc, upreq, uptick, upfile, upenv, upinfo, upresp,
          storage, ragCalls>>

\* ------------------------------------------------------------ chat routes
Routes == {"/chat", "/reason", "/search", "/chat-rag"}

\* Dict[str, str] values a message can take: with and without "content"
MsgValues == { [role |-> "user", content |-> "hello"], [role |-> "user"] }

BoundedSeq(S, n) == UNION { [1..k -> S] : k \in 0..n }

MessageLists == BoundedSeq(MsgValues, MaxMsgs)

Tokens == {"t1", "t2"}

\* a generator: the tokens it yields, then either StopIteration or an exception
Backends == [tokens : BoundedSeq(Tokens, MaxTokens), fails : BOOLEAN]

NoBackend == [tokens |-> <<>>, fails |-> FALSE]

NoResponse == [kind |-> "none", status |-> 0, detail |-> ""]

\* the request body models accept any list, the empty one included
ValidBody(msgs) == msgs \in Seq(MsgValues)

\* StreamingResponse(generator, media_type="text/event-stream")
StreamingResponse == [kind |-> "sse", status |-> 200, detail |-> "text/event-stream"]

\* variant: the failure is handed back as an ordinary JSON payload, the way
\* the upload route does it
HTTPException500_AsPayload(e) == [kind |-> "json", status |-> 200, detail |-> e]

\* except Exception as e: raise HTTPException(status_code=500, detail=str(e))
HTTPException500(e) == [kind |-> "http_error", status |-> 500, detail |-> e]

\* the service each route constructs
BackendOf(r) ==
    CASE r = "/chat"     -> "LLMFactory.create_chat_service"
      [] r = "/reason"   -> "LLMFactory.create_reasoner_service"
      [] r = "/search"   -> "SearchService"
      [] r = "/chat-rag" -> "RAGChatService"

Outcome(c, l, r) == [constructed |-> c, logged |-> l, response |-> r]

\* chat_endpoint / reason_endpoint: construct, log the last message, stream
chat_endpoint(r, msgs, env) ==
    IF env.createFails
    THEN Outcome({}, <<>>, HTTPException500("construction failed"))
    ELSE IF Len(msgs) = 0
    THEN Outcome({BackendOf(r)}, <<>>, HTTPException500("IndexError"))
    ELSE IF "content" \notin DOMAIN msgs[Len(msgs)]
    THEN Outcome({BackendOf(r)}, <<>>, HTTPException500("KeyError"))
    ELSE IF env.logFails
    THEN Outcome({BackendOf(r)}, <<>>, HTTPException500("logging failed"))
    ELSE Outcome({BackendOf(r)}, <<Len(msgs)>>, StreamingResponse)

\* search_endpoint: construct, take the first message's content, stream
search_endpoint(r, msgs, env) ==
    IF env.createFails
    THEN Outcome({}, <<>>, HTTPException500("construction failed"))
    ELSE IF Len(msgs) = 0
    THEN Outcome({BackendOf(r)}, <<>>, HTTPException500("IndexError"))
    ELSE IF "content" \notin DOMAIN msgs[1]
    THEN Outcome({BackendOf(r)}, <<>>, HTTPException500("KeyError"))
    ELSE Outcome({BackendOf(r)}, <<>>, StreamingResponse)

\* rag_chat_endpoint: construct, stream; the messages are not looked at
rag_chat_endpoint(r, msgs, env) ==
    IF env.createFails
    THEN Outcome({}, <<>>, HTTPException500("construction failed"))
    ELSE Outcome({BackendOf(r)}, <<>>, StreamingResponse)

Handle(r, msgs, env) ==
    CASE r \in {"/chat", "/reason"} -> chat_endpoint(r, msgs, env)
      [] r = "/search"              -> search_endpoint(r, msgs, env)
      [] r = "/chat-rag"            -> rag_chat_endpoint(r, msgs, env)

\* A request arrives and its handler runs to its return or raise (the
\* handlers of the chat-like routes contain no suspension point).
Request(r, msgs, env, gen) ==
    /\ cpc = "idle"
    /\ ValidBody(msgs)
    /\ LET out == Handle(r, msgs, env) IN
        /\ route' = r
        /\ messages' = msgs
        /\ cenv' = env
        /\ constructed' = out.constructed
        /\ logged' = out.logged
        /\ response' = out.response
        /\ IF out.response.kind = "sse"
           THEN cpc' = "streaming" /\ backend' = gen
           ELSE cpc' = "rejected" /\ backend' = NoBackend
    /\ UNCHANGED <<pulled, delivered, streamEnd>>
    /\ UNCHANGED uploadVars

\* variant: an exception of the generator is swallowed and the body is closed
\* as if the generator had finished
StreamStep_Swallow(gen, n, out) ==
    IF n < Len(gen.tokens)
    THEN [pulled |-> n + 1, delivered |-> Append(out, gen.tokens[n + 1]), streamEnd |-> "none"]
    ELSE [pulled |-> n, delivered |-> out, streamEnd |-> "complete"]

\* what the response does with the next item of the generator:
\* a token is sent on, StopIteration closes the body, an exception aborts it
StreamStep(gen, n, out) ==
    IF n < Len(gen.tokens)
    THEN [pulled |-> n + 1, delivered |-> Append(out, gen.tokens[n + 1]), streamEnd |-> "none"]
    ELSE IF gen.fails
    THEN [pulled |-> n, delivered |-> out, streamEnd |-> "aborted"]
    ELSE [pulled |-> n, delivered |-> out, streamEnd |-> "complete"]

Stream ==
    /\ cpc = "streaming"
    /\ LET s == StreamStep(backend, pulled, delivered) IN
        /\ pulled' = s.pulled
        /\ delivered' = s.delivered
        /\ streamEnd' = s.streamEnd
        /\ cpc' = IF s.streamEnd = "none" THEN "streaming" ELSE "ended"
    /\ UNCHANGED <<route, messages, cenv, constructed, logged, response, backend>>
    /\ UNCHANGED uploadVars

ChatEnvs == [createFails : BOOLEAN, logFails : BOOLEAN]

InitChat ==
    /\ cpc = "idle"
    /\ route = "/chat"
    /\ messages = <<>>
    /\ cenv = [createFails |-> FALSE, logFails |-> FALSE]
    /\ constructed = {}
    /\ logged = <<>>
    /\ response = NoResponse
    /\ backend = NoBackend
    /\ pulled = 0
    /\ delivered = <<>>
    /\ streamEnd = "none"

NextChat ==
    \/ \E r \in Routes, msgs \in MessageLists, env \in ChatEnvs, gen \in Backends :
          Request(r, msgs, env, gen)
    \/ Stream

\* ------------------------------------------------------------ /upload
Uploads == 1..NumUploads

\* original names a client can send
Names == {"a.txt", "b.txt"}

\* the body request u sends: u bytes of value u, so that the bodies of
\* different requests differ in length and in content
ContentOf(u) == [i \in 1..u |-> u]

Pad2(n) == IF n < 10 THEN "0" \o ToString(n) ELSE ToString(n)

\* datetime.now(): the wall clock read to the second; the model starts at
\* 00:00:58 so that the minute field changes within the horizon
now(t) == 58 + (t \div TicksPerSecond)

\* variant: the format stops at the minute, "%Y%m%d_%H%M"
strftime_Minutes(sec) ==
    "20260101_" \o Pad2((sec \div 3600) % 24) \o Pad2((sec \div 60) % 60)

\* strftime("%Y%m%d_%H%M%S") of a time of day given in seconds
strftime(sec) ==
    "20260101_" \o Pad2((sec \div 3600) % 24) \o Pad2((sec \div 60) % 60) \o Pad2(sec % 60)

\* filename = f"{timestamp}_{file.filename}"
Filename(ts, name) == ts \o "_" \o name

\* file_path = UPLOAD_DIR / filename, as the string with forward slashes
FilePath(fname) == "uploads/" \o fname

\* {**a, **b}: the keys of both, b's value where both have the key
Merge(a, b) == [k \in DOMAIN a \cup DOMAIN b |-> IF k \in DOMAIN b THEN b[k] ELSE a[k]]

EmptyDict == [k \in {} |-> ""]

\* file_info built after the write
FileInfo(req, file) ==
    [filename      |-> file.filename,
     original_name |-> req.filename,
     size          |-> Len(req.content),
     type          |-> req.content_type,
     path          |-> file.path]

\* what RAGService.process_file can do: raise, return something that is not
\* a mapping, or return a dict, possibly one with a "filename" or "path" key
RagResults ==
    { [index_id |-> "idx", chunks |-> 3],
      [index_id |-> "idx", filename |-> "doc.txt", path |-> "index/doc.txt"] }

RagOutcomes ==
    { [kind |-> "raise", result |-> EmptyDict], [kind |-> "none", result |-> EmptyDict] }
    \cup { [kind |-> "ok", result |-> d] : d \in RagResults }

IoOutcomes == {"ok", "open_fails", "write_fails"}

NoUploadResponse == [kind |-> "none", status |-> 0, body |-> EmptyDict]

\* return result
UploadReturn(result) == [kind |-> "return", status |-> 200, body |-> result]

\* variant: the exception is handed on to the router
UploadExcept_Reraise(e) == [kind |-> "raise", status |-> 500, body |-> [error |-> e]]

\* except Exception as e: return {"error": str(e)}
UploadExcept(e) == [kind |-> "return", status |-> 200, body |-> [error |-> e]]

\* with open(file_path, "wb") as f: f.write(content)
\* open creates or truncates the file; a failed write leaves it truncated
WriteFile(store, path, content, io) ==
    CASE io = "open_fails"  -> store
      [] io = "write_fails" -> [p \in DOMAIN store \cup {path} |-> IF p = path THEN <<>> ELSE store[p]]
      [] io = "ok"          -> [p \in DOMAIN store \cup {path} |-> IF p = path THEN content ELSE store[p]]

\* variant: the write is not waited for, its failure does not stop the flow
ReachesProcessFile_IgnoringWrite(readOk, io, ctorOk) == readOk /\ ctorOk

\* control reaches rag_service.process_file(file_info) only past the read,
\* the write and the construction of RAGService
ReachesProcessFile(readOk, io, ctorOk) == readOk /\ io = "ok" /\ ctorOk

\* the end of the handler once process_file has come back
FinishUpload(info, rag, logOk) ==
    IF rag.kind = "raise" THEN UploadExcept("indexing failed")
    ELSE IF rag.kind = "none" THEN UploadExcept("TypeError")
    ELSE IF ~logOk THEN UploadExcept("logging failed")
    ELSE UploadReturn(Merge(info, rag.result))

NoFile == [timestamp |-> "", filename |-> "", path |-> ""]
NoReq == [filename |-> "", content_type |-> "", content |-> <<>>]
NoEnv == [readOk |-> TRUE, io |-> "ok", ctorOk |-> TRUE,
          rag |-> [kind |-> "unset", result |-> EmptyDict], logOk |-> TRUE]

\* The handler starts: timestamp, filename and path are fixed, then the
\* handler suspends in `await file.read()`.  Requests are numbered in the
\* order in which their handlers start.
UploadBegin(u, name) ==
    /\ upc[u] = "new"
    /\ \A v \in Uploads : v < u => upc[v] # "new"
    /\ LET ts == strftime(now(clock))
           fname == Filename(ts, name) IN
        /\ upfile' = [upfile EXCEPT ![u] =
                        [timestamp |-> ts, filename |-> fname, path |-> FilePath(fname)]]
        /\ upreq' = [upreq EXCEPT ![u] =
                        [filename |-> name, content_type |-> "text/plain", content |-> ContentOf(u)]]
    /\ uptick' = [uptick EXCEPT ![u] = clock]
    /\ upc' = [upc EXCEPT ![u] = "reading"]
    /\ UNCHANGED <<clock, upenv, upinfo, upresp, storage, ragCalls>>
    /\ UNCHANGED chatVars

\* The read comes back: write the file, build file_info, construct
\* RAGService and call process_file, where the handler suspends again.
UploadPersist(u, readOk, io, ctorOk) ==
    /\ upc[u] = "reading"
    /\ upenv' = [upenv EXCEPT ![u] =
                    [@ EXCEPT !.readOk = readOk,
                              !.io = IF readOk THEN io ELSE "ok",
                              !.ctorOk = IF readOk /\ io = "ok" THEN ctorOk ELSE TRUE]]
    /\ storage' = IF readOk
                  THEN WriteFile(storage, upfile[u].path, upreq[u].content, io)
                  ELSE storage
    /\ upinfo' = IF readOk /\ io = "ok"
                 THEN [upinfo EXCEPT ![u] = FileInfo(upreq[u], upfile[u])]
                 ELSE upinfo
    /\ IF ReachesProcessFile(readOk, io, ctorOk)
       THEN /\ ragCalls' = ragCalls \cup {u}
            /\ upc' = [upc EXCEPT ![u] = "indexing"]
            /\ upresp' = upresp
       ELSE /\ ragCalls' = ragCalls
            /\ upc' = [upc EXCEPT ![u] = "done"]
            /\ upresp' = [upresp EXCEPT ![u] =
                            IF ~readOk THEN UploadExcept("read failed")
                            ELSE IF io = "open_fails" THEN UploadExcept("open failed")
                            ELSE IF io = "write_fails" THEN UploadExcept("write failed")
                            ELSE UploadExcept("RAGService failed")]
    /\ UNCHANGED <<clock, upreq, uptick, upfile>>
    /\ UNCHANGED chatVars

\* process_file comes back: merge, log, return.
UploadFinish(u, rag, logOk) ==
    /\ upc[u] = "indexing"
    /\ upenv' = [upenv EXCEPT ![u] =
                    [@ EXCEPT !.rag = rag,
                              !.logOk = IF rag.kind = "ok" THEN logOk ELSE TRUE]]
    /\ upresp' = [upresp EXCEPT ![u] = FinishUpload(upinfo[u], rag, logOk)]
    /\ upc' = [upc EXCEPT ![u] = "done"]
    /\ UNCHANGED <<clock, upreq, uptick, upfile, upinfo, storage, ragCalls>>
    /\ UNCHANGED chatVars

\* half a second passes
Tick ==
    /\ clock < MaxTick
    /\ clock' = clock + 1
    /\ UNCHANGED <<upc, upreq, uptick, upfile, upenv, upinfo, upresp, storage, ragCalls>>
    /\ UNCHANGED chatVars

InitUpload ==
    /\ clock = 0
    /\ upc = [u \in Uploads |-> "new"]
    /\ upreq = [u \in Uploads |-> NoReq]
    /\ uptick = [u \in Uploads |-> 0]
    /\ upfile = [u \in Uploads |-> NoFile]
    /\ upenv = [u \in Uploads |-> NoEnv]
    /\ upinfo = [u \in Uploads |-> EmptyDict]
    /\ upresp = [u \in Uploads |-> NoUploadResponse]
    /\ storage = EmptyDict
    /\ ragCalls = {}

NextUpload ==
    \/ \E u \in Uploads, name \in Names : UploadBegin(u, name)
    \/ \E u \in Uploads, readOk \in BOOLEAN, io \in IoOutcomes, ctorOk \in BOOLEAN :
          UploadPersist(u, readOk, io, ctorOk)
    \/ \E u \in Uploads, rag \in RagOutcomes, logOk \in BOOLEAN : UploadFinish(u, rag, logOk)
    \/ Tick

\* ------------------------------------------------------- specifications
Init == InitChat /\ InitUpload

\* the chat-like routes
SpecChat == Init /\ [][NextChat]_vars

\* the /upload route
SpecUpload == Init /\ [][NextUpload]_vars

\* ---------------------------------------------------------------- claims

\* C1: on every chat-like route a request with an empty message sequence is
\* rejected with a 4xx status, and no backend has been constructed when it is
\* rejected.
C1_EmptyRejectedBeforeConstruction ==
    (cpc # "idle" /\ messages = <<>>) =>
        /\ response.kind = "http_error"
        /\ response.status \in 400..499
        /\ constructed = {}

IsPrefix(s, t) == Len(s) <= Len(t) /\ s = SubSeq(t, 1, Len(s))

C3_IdentityFieldsAuthoritative ==
    \A u \in Uploads :
        (upc[u] = "done" /\ "error" \notin DOMAIN upresp[u].body) =>
            /\ upresp[u].body.filename = upfile[u].filename
            /\ upresp[u].body.path = upfile[u].path

\* a step of the upload flow failed: the read, the write, the construction of
\* the indexing service, the indexing itself, or the merge
StepFailed(u) ==
    \/ ~upenv[u].readOk
    \/ upenv[u].io # "ok"
    \/ ~upenv[u].ctorOk
    \/ upenv[u].rag.kind \in {"raise", "none"}

NothingFailed(u) == ~StepFailed(u) /\ upenv[u].rag.kind = "ok" /\ upenv[u].logOk

\* C5: the /upload handler never raises to the router: every finished upload
\* has returned with status 200; the body is the error shape {error: message}
\* when a step failed and the merged success object when nothing failed.
C5_UploadNeverRaises ==
    \A u \in Uploads :
        /\ upresp[u].kind # "raise"
        /\ upc[u] = "done" =>
            /\ upresp[u].kind = "return"
            /\ upresp[u].status = 200
            /\ \/ DOMAIN upresp[u].body = {"error"}
               \/ DOMAIN upresp[u].body = DOMAIN upinfo[u] \cup DOMAIN upenv[u].rag.result
            /\ StepFailed(u) => DOMAIN upresp[u].body = {"error"}
            /\ NothingFailed(u) =>
                /\ "error" \notin DOMAIN upresp[u].body
                /\ DOMAIN upresp[u].body = DOMAIN upinfo[u] \cup DOMAIN upenv[u].rag.result
                /\ upresp[u].body.size = Len(upreq[u].content)
                /\ upresp[u].body.original_name = upreq[u].filename

C5_Witness ==
    \E u, v \in Uploads :
        /\ upc[u] = "done" /\ upenv[u].io = "write_fails"
        /\ upresp[u] = [kind |-> "return", status |-> 200, body |-> [error |-> "write failed"]]
        /\ upc[v] = "done" /\ NothingFailed(v)
        /\ "index_id" \in DOMAIN upresp[v].body

\* C6: a failure of log_structured does not change the outcome: on /chat and
\* /reason the response is still the SSE stream when the backend was
\* constructed, on /upload it is still the merged success object when the
\* file was saved and indexed.
C6_LoggingFailureHarmless ==
    /\ ( /\ cpc # "idle"
         /\ route \in {"/chat", "/reason"}
         /\ ~cenv.createFails
         /\ cenv.logFails
         /\ Len(messages) > 0
         /\ "content" \in DOMAIN messages[Len(messages)] )
       => response.kind = "sse"
    /\ \A u \in Uploads :
        (upc[u] = "done" /\ upenv[u].rag.kind = "ok" /\ ~upenv[u].logOk) =>
            "error" \notin DOMAIN upresp[u].body

\* C7: the bytes stored at a path never change once the path has been
\* written, in any interleaving of uploads.
C7_StoredUploadImmutable ==
    [][\A p \in DOMAIN storage : p \in DOMAIN storage' /\ storage'[p] = storage[p]]_vars

Abs(n) == IF n < 0 THEN -n ELSE n

\* two uploads of the same original name whose handlers started more than one
\* second apart
ApartSameName(i, j) ==
    /\ i # j
    /\ upc[i] # "new" /\ upc[j] # "new"
    /\ upreq[i].filename = upreq[j].filename
    /\ Abs(uptick[i] - uptick[j]) > TicksPerSecond

Stored(u) == upc[u] \in {"indexing", "done"} /\ upenv[u].readOk /\ upenv[u].io = "ok"

\* C8: two uploads of the same original name issued more than one second
\* apart get different stored filenames and paths, and once both are stored
\* each path holds the bytes of its own request (no third upload having
\* written to either path).
C8_DistinctWhenApart ==
    \A i, j \in Uploads :
        ApartSameName(i, j) =>
            /\ upfile[i].filename # upfile[j].filename
            /\ upfile[i].path # upfile[j].path
            /\ ( /\ Stored(i) /\ Stored(j)
                 /\ \A k \in Uploads \ {i, j} : upfile[k].path \notin {upfile[i].path, upfile[j].path} )
               => /\ upfile[i].path \in DOMAIN storage
                  /\ upfile[j].path \in DOMAIN storage
                  /\ storage[upfile[i].path] = upreq[i].content
                  /\ storage[upfile[j].path] = upreq[j].content

C8_Witness ==
    \E i, j \in Uploads :
        /\ ApartSameName(i, j)
        /\ upc[i] = "done" /\ upc[j] = "done"
        /\ Stored(i) /\ Stored(j)
        /\ storage[upfile[i].path] = upreq[i].content
        /\ storage[upfile[j].path] = upreq[j].content
        /\ upreq[i].content # upreq[j].content

\* C9: when the construction of the backend fails, the request ends with one
\* non-streamed 5xx response: no SSE response is started and no token reaches
\* the client.
C9_ConstructionFailureIsHttpError ==
    (cpc # "idle" /\ cenv.createFails) =>
        /\ cpc = "rejected"
        /\ response.kind = "http_error"
        /\ response.status \in 500..599
        /\ constructed = {}
        /\ pulled = 0
        /\ delivered = <<>>
        /\ streamEnd = "none"

C9_Witness ==
    /\ cpc = "rejected"
    /\ cenv.createFails
    /\ response = [kind |-> "http_error", status |-> 500, detail |-> "construction failed"]

\* C10: process_file is invoked for an upload only in a step that leaves the
\* upload's bytes fully written at its path, and an upload whose read or
\* write failed is never handed to process_file.
C10_IndexOnlyAfterPersist ==
    [][\A u \in Uploads :
          /\ (u \in ragCalls' /\ u \notin ragCalls) =>
                /\ upfile[u].path \in DOMAIN storage'
                /\ storage'[upfile[u].path] = upreq[u].content
                /\ upinfo'[u].path = upfile[u].path
          /\ (~upenv'[u].readOk \/ upenv'[u].io # "ok") => u \notin ragCalls'
      ]_vars

C10_Witness ==
    \E u, v \in Uploads :
        /\ u \in ragCalls
        /\ storage[upfile[u].path] = upreq[u].content
        /\ upc[v] = "done" /\ upenv[v].io = "write_fails" /\ v \notin ragCalls

====
